---- MODULE Spec2Model ----
(***************************************************************************)
(* Model of the SCD Type-2 customer dimension synchronisation and the      *)
(* temporal fact linkage of the ETL pipeline (src/src/main.py,             *)
(* src/src/transformation.py, src/src/loader.py).                          *)
(*                                                                         *)
(* Data frames and database tables are sequences of records, in row order. *)
(* Dates are day numbers; cell values carry their pandas type.             *)
(*                                                                         *)
(* Spec is the pipeline whose store calls succeed, SpecTyped the same over *)
(* files whose cells are typed by inference, SpecStore the pipeline whose  *)
(* store calls may raise, SpecResolve the fact linkage on its own,         *)
(* SpecSchema the pipeline over files of which some lack a column.         *)
(***************************************************************************)
EXTENDS Integers, Sequences, FiniteSets, TLC

(***************************************************************************)
(* Bounds of the model                                                     *)
(***************************************************************************)
\* number of pipeline invocations explored
MaxRuns == 2
\* last calendar day the clock, the records and the facts can show
MaxDay == 2
\* rows of one ingested flat file
MaxRows == 2
\* longest delay, in months, that has a row in dim_late_fee
MaxFeeMonths == 1

(***************************************************************************)
(* Dates                                                                   *)
(***************************************************************************)
\* pandas NaT: a missing / unparseable date; every comparison with it is False
NaT == -1
\* datetime(1900, 1, 1): the day every real day of the model comes after
Date1900 == 0
\* pd.Timestamp.max (2262-04-11), as a day number beyond every real day
TimestampMax == 2262
\* '9999-12-31', beyond what pandas datetimes can hold
EndOfTime == 9999

Days == 1..MaxDay

\* pd.to_datetime(x, errors='coerce'): out of bounds dates become NaT
ToDatetimeCoerce(d) == IF d = NaT \/ d > TimestampMax THEN NaT ELSE d

\* Series.fillna(v) on one cell of a datetime column
FillNaT(d, v) == IF d = NaT THEN v ELSE d

\* the calendar date of a day of the model: day 1 is 2024-05-30, so that the days
\* run over the end of a month
DateOf(d) ==
  LET n == 29 + d
  IN IF n <= 31 THEN [year |-> 2024, month |-> 5, day |-> n]
     ELSE [year |-> 2024, month |-> 6, day |-> n - 31]

\* the decimal digits of n, zero-padded to width w
Digits(n, w) == [i \in 1..w |-> (n \div (10 ^ (w - i))) % 10]

\* Timestamp.strftime('%Y%m%d'): the text as its sequence of digits
StrfTime(d) ==
  LET c == DateOf(d)
  IN Digits(c.year, 4) \o Digits(c.month, 2) \o Digits(c.day, 2)

RECURSIVE AsTypeInt(_)
\* int(text) of a text of decimal digits
AsTypeInt(digits) ==
  IF digits = <<>> THEN 0
  ELSE 10 * AsTypeInt(SubSeq(digits, 1, Len(digits) - 1)) + digits[Len(digits)]

\* txn_date.dt.strftime('%Y%m%d').fillna(0).astype(int) on one cell
DateSk(txn) == IF txn = NaT THEN 0 ELSE AsTypeInt(StrfTime(txn))

\* (days / 30).round().fillna(0).astype(int) on one cell of late_duration_days:
\* the nearest whole number of months, a half going to the even one
LateDurationMonths(paid, due) ==
  IF paid = NaT \/ due = NaT THEN 0
  ELSE LET days == paid - due
           low == IF days >= 0 THEN days \div 30 ELSE -((-days + 29) \div 30)
           rest == days - 30 * low
       IN IF rest < 15 THEN low
          ELSE IF rest > 15 THEN low + 1
          ELSE IF low % 2 = 0 THEN low ELSE low + 1

(***************************************************************************)
(* Cell values: t is the Python type of the cell, s its text               *)
(***************************************************************************)
\* float NaN, what read_csv leaves in an empty cell
NaN == [t |-> "nan", s |-> ""]
\* Python None, what read_sql returns for a NULL
None == [t |-> "none", s |-> ""]
Str(x) == [t |-> "str", s |-> x]
\* an integer cell: a key column that a left join may leave missing, or a column
\* of whole numbers
IntCell(n) == [t |-> "int", s |-> "", n |-> n]

\* Series.astype(str) on one cell
AsTypeStr(v) ==
  CASE v.t = "nan" -> "nan"
    [] v.t = "none" -> "None"
    [] v.t = "int" -> ToString(v.n)
    [] OTHER -> v.s

\* a cell written by DataFrame.to_sql into a text column and read back by read_sql
ToSql(v) == IF v.t \in {"nan", "none"} THEN None ELSE Str(AsTypeStr(v))

(***************************************************************************)
(* Input domains                                                           *)
(***************************************************************************)
CustomerIds == {"c1", "c2"}
PolicyIds == {"p1"}
\* the postal codes of the flat files
PostalCodes == {"z1"}
\* dim_late_fee holds one row per delay of fee_range, 0 to 60 months; the model
\* keeps the rows of the delays up to MaxFeeMonths, which no fact of its days exceeds
fee_range == 0..MaxFeeMonths
compare_cols == <<"customer_name", "customer_segment", "marital_status", "region">>

\* the tracked attributes a customer row of the flat file may carry
AttrChoices ==
  { [customer_name |-> Str("a"), customer_segment |-> Str("bc"),
     marital_status |-> Str("m"), region |-> Str("r")],
    [customer_name |-> Str("ab"), customer_segment |-> Str("c"),
     marital_status |-> Str("m"), region |-> Str("r")],
    [customer_name |-> Str("a"), customer_segment |-> Str("bc"),
     marital_status |-> Str("s"), region |-> Str("r")],
    [customer_name |-> Str("a"), customer_segment |-> Str("bc"),
     marital_status |-> NaN, region |-> Str("r")] }

\* one row of the standardised flat file df: the columns the dimensions read.
\* Column txn_date is kept apart (variable txn_date), and so is next_premium_dt,
\* which only the late fee reads.
\* Column effective_start_dt, which only the first load reads, is filled on rows
\* of the first attribute choice and empty on the others.
DfRows ==
  { r \in
      { [customer_id |-> c,
         customer_name |-> a.customer_name,
         customer_segment |-> a.customer_segment,
         marital_status |-> a.marital_status,
         region |-> a.region,
         effective_start_dt |-> e,
         policy_id |-> p,
         postal_code |-> z] :
        c \in CustomerIds, a \in AttrChoices, e \in {NaT, MaxDay},
        p \in PolicyIds, z \in PostalCodes } :
      \/ r.effective_start_dt = NaT
      \/ r.customer_name = Str("a") /\ r.marital_status = Str("m") }

\* the dates a fact may carry: a day, or none
TxnDates == Days \cup {NaT}

Batches == UNION { [1..n -> DfRows] : n \in 1..MaxRows }

\* the cells column marital_status may hold when the files are read with type
\* inference: text (a cell ' nan' or 'None ' is text, and is trimmed later), an
\* integer when every cell of the column is one, or nothing
TypedCells ==
  { Str("m"), Str("nan"), Str("None"), Str("1"), IntCell(1), NaN }

\* flat files of one row of customer c1 whose marital_status is any typed cell
TypedBatches ==
  { <<[customer_id |-> "c1",
       customer_name |-> Str("a"),
       customer_segment |-> Str("bc"),
       marital_status |-> v,
       region |-> Str("r"),
       effective_start_dt |-> e,
       policy_id |-> "p1",
       postal_code |-> "z1"]>> : v \in TypedCells, e \in {NaT, MaxDay} }

(***************************************************************************)
(* Data frame operations                                                   *)
(***************************************************************************)
RECURSIVE Concat(_)
\* pd.concat of a sequence of frames, in order
Concat(frames) ==
  IF frames = <<>> THEN <<>> ELSE Head(frames) \o Concat(Tail(frames))

\* frame[keep]: the rows at which the boolean series keep is true, in order
RowsWhere(frame, keep) ==
  Concat([i \in 1..Len(frame) |-> IF keep[i] THEN <<frame[i]>> ELSE <<>>])

\* the customer columns of one df row (Transformer.split_dataframe for stg_cust,
\* then the column selection of dim_cust_new)
CustomerColumns(r) ==
  [customer_id |-> r.customer_id,
   customer_name |-> r.customer_name,
   customer_segment |-> r.customer_segment,
   marital_status |-> r.marital_status,
   region |-> r.region,
   effective_start_dt |-> r.effective_start_dt]

\* stg_cust[...].drop_duplicates('customer_id'): the first row of every customer_id
DimCustNew(df) ==
  LET cust == [i \in 1..Len(df) |-> CustomerColumns(df[i])]
  IN RowsWhere(cust, [i \in 1..Len(cust) |->
       \A j \in 1..(i - 1) : cust[j].customer_id # cust[i].customer_id])

\* stg_pol[...].drop_duplicates('policy_id'): the first row of every policy_id
DimPolicyNew(df) ==
  LET pol == [i \in 1..Len(df) |-> [policy_id |-> df[i].policy_id]]
  IN RowsWhere(pol, [i \in 1..Len(pol) |->
       \A j \in 1..(i - 1) : pol[j].policy_id # pol[i].policy_id])

\* stg_addr[...].drop_duplicates(['customer_id', 'postal_code'])
DimAddrNew(df) ==
  LET addr == [i \in 1..Len(df) |->
                [customer_id |-> df[i].customer_id,
                 postal_code |-> df[i].postal_code]]
  IN RowsWhere(addr, [i \in 1..Len(addr) |->
       \A j \in 1..(i - 1) : addr[j] # addr[i]])

\* the reference rows of dim_late_fee: one per delay of fee_range
LateFeeRows == [i \in 1..Cardinality(fee_range) |-> [duration_months |-> i - 1]]

\* SELECT customer_sk, customer_id, customer_name, customer_segment,
\* marital_status, region FROM dim_customer WHERE current_flag = 1
FetchExisting(table) ==
  LET cur == SelectSeq(table, LAMBDA v : v.current_flag = 1)
  IN [i \in 1..Len(cur) |->
       [customer_sk |-> cur[i].customer_sk,
        customer_id |-> cur[i].customer_id,
        customer_name |-> cur[i].customer_name,
        customer_segment |-> cur[i].customer_segment,
        marital_status |-> cur[i].marital_status,
        region |-> cur[i].region]]

(***************************************************************************)
(* Transformer.scd_type_2                                                  *)
(***************************************************************************)
\* one row of pd.merge(new_df, existing_df, on='customer_id', how='left',
\* suffixes=('', '_old'), indicator=True) for a key found in existing_df
MergedBoth(n, e) ==
  [customer_id |-> n.customer_id,
   customer_name |-> n.customer_name,
   customer_segment |-> n.customer_segment,
   marital_status |-> n.marital_status,
   region |-> n.region,
   effective_start_dt |-> n.effective_start_dt,
   customer_sk |-> e.customer_sk,
   customer_name_old |-> e.customer_name,
   customer_segment_old |-> e.customer_segment,
   marital_status_old |-> e.marital_status,
   region_old |-> e.region,
   merge_ind |-> "both"]

\* the merged row of a key absent from existing_df: the right columns are missing
MergedLeftOnly(n) ==
  [customer_id |-> n.customer_id,
   customer_name |-> n.customer_name,
   customer_segment |-> n.customer_segment,
   marital_status |-> n.marital_status,
   region |-> n.region,
   effective_start_dt |-> n.effective_start_dt,
   customer_sk |-> NaN,
   customer_name_old |-> NaN,
   customer_segment_old |-> NaN,
   marital_status_old |-> NaN,
   region_old |-> NaN,
   merge_ind |-> "left_only"]

\* the left join: every new_df row once per matching existing row, in order
MergeLeft(new_df, existing_df) ==
  Concat([i \in 1..Len(new_df) |->
    LET hits == SelectSeq(existing_df,
                  LAMBDA e : e.customer_id = new_df[i].customer_id)
    IN IF hits = <<>>
       THEN <<MergedLeftOnly(new_df[i])>>
       ELSE [j \in 1..Len(hits) |-> MergedBoth(new_df[i], hits[j])]])

\* create_hash over compare_cols: the cells as text, concatenated
NewHash(m) ==
  AsTypeStr(m.customer_name) \o AsTypeStr(m.customer_segment)
    \o AsTypeStr(m.marital_status) \o AsTypeStr(m.region)

\* create_hash over the '_old' columns
OldHash(m) ==
  AsTypeStr(m.customer_name_old) \o AsTypeStr(m.customer_segment_old)
    \o AsTypeStr(m.marital_status_old) \o AsTypeStr(m.region_old)

\* merged[merged['_merge'] == 'left_only']
NewRows(merged) == SelectSeq(merged, LAMBDA m : m.merge_ind = "left_only")

\* merged[merged['_merge'] == 'both']
ExistingMatches(merged) == SelectSeq(merged, LAMBDA m : m.merge_ind = "both")

\* ChangedRows without the restriction to the matched rows
ChangedRows_AllMerged(merged) ==
  SelectSeq(merged, LAMBDA m : NewHash(m) # OldHash(m))

\* existing_matches[new_hash != old_hash]
ChangedRows(merged) ==
  SelectSeq(ExistingMatches(merged), LAMBDA m : NewHash(m) # OldHash(m))

\* the matched rows that are not in changed_rows: nothing is planned for them
UnchangedRows(merged) ==
  SelectSeq(ExistingMatches(merged), LAMBDA m : NewHash(m) = OldHash(m))

\* a row of new_df columns with the validity columns of a version to insert
InsertRow(m, start) ==
  [customer_id |-> m.customer_id,
   customer_name |-> m.customer_name,
   customer_segment |-> m.customer_segment,
   marital_status |-> m.marital_status,
   region |-> m.region,
   current_flag |-> 1,
   eff_start_dt |-> start,
   eff_end_dt |-> EndOfTime]

\* Updates when no surrogate key column is found: nothing is expired
Updates_NoSkCol(changed, today) == <<>>

\* updates: the surrogate key of every changed row, closed as of today
Updates(changed, today) ==
  [i \in 1..Len(changed) |->
    [customer_sk |-> changed[i].customer_sk,
     current_flag |-> 0,
     eff_end_dt |-> today]]

\* all_inserts = pd.concat([new_inserts, inserts_from_updates])
AllInserts(merged, today) ==
  LET new_inserts == NewRows(merged)
      changed_rows == ChangedRows(merged)
  IN [i \in 1..Len(new_inserts) |-> InsertRow(new_inserts[i], today)]
       \o [i \in 1..Len(changed_rows) |-> InsertRow(changed_rows[i], today)]

\* FirstLoadInserts without the 1900-01-01 default for a missing start date
FirstLoadInserts_NoDefault(dim_cust_new) ==
  [i \in 1..Len(dim_cust_new) |->
    InsertRow(dim_cust_new[i],
              ToDatetimeCoerce(dim_cust_new[i].effective_start_dt))]

\* FirstLoadInserts that takes the start date of the branch for a frame without
\* column effective_start_dt
FirstLoadInserts_Always1900(dim_cust_new) ==
  [i \in 1..Len(dim_cust_new) |-> InsertRow(dim_cust_new[i], Date1900)]

\* the first load of run_pipeline: existing_cust is empty, every row is inserted
FirstLoadInserts(dim_cust_new) ==
  [i \in 1..Len(dim_cust_new) |->
    InsertRow(dim_cust_new[i],
              FillNaT(ToDatetimeCoerce(dim_cust_new[i].effective_start_dt),
                      Date1900))]

(***************************************************************************)
(* Fact linkage (run_pipeline, step 7.6)                                   *)
(***************************************************************************)
\* df joined to map_cust on customer_id (how='left'): a df row once per version of
\* its customer, or once with missing version columns. row is the position of the
\* fact in df; dates and months are its columns txn_date and late_duration_months.
MergeCust(df, dates, months, map_cust) ==
  Concat([i \in 1..Len(df) |->
    LET hits == SelectSeq(map_cust,
                  LAMBDA v : v.customer_id = df[i].customer_id)
        f == [row |-> i, customer_id |-> df[i].customer_id,
              txn_date |-> dates[i], policy_id |-> df[i].policy_id,
              postal_code |-> df[i].postal_code,
              late_duration_months |-> months[i]]
    IN IF hits = <<>>
       THEN <<[row |-> f.row, customer_id |-> f.customer_id,
               txn_date |-> f.txn_date, policy_id |-> f.policy_id,
               postal_code |-> f.postal_code,
               late_duration_months |-> f.late_duration_months,
               customer_sk |-> NaN, eff_start_dt |-> NaT, eff_end_dt |-> NaT]>>
       ELSE [j \in 1..Len(hits) |->
              [row |-> f.row, customer_id |-> f.customer_id,
               txn_date |-> f.txn_date, policy_id |-> f.policy_id,
               postal_code |-> f.postal_code,
               late_duration_months |-> f.late_duration_months,
               customer_sk |-> IntCell(hits[j].customer_sk),
               eff_start_dt |-> hits[j].eff_start_dt,
               eff_end_dt |-> hits[j].eff_end_dt]]])

\* Mask with the end of the window excluded
Mask_EndExcluded(m) ==
  LET txn == ToDatetimeCoerce(m.txn_date)
      start == ToDatetimeCoerce(m.eff_start_dt)
      end == FillNaT(ToDatetimeCoerce(m.eff_end_dt), TimestampMax)
  IN /\ txn # NaT
     /\ start # NaT
     /\ txn >= start
     /\ txn < end

\* mask = (txn_date >= eff_start_dt) & (txn_date <= eff_end_dt), after the dates
\* are coerced and the unrepresentable end date is replaced by pd.Timestamp.max
Mask(m) ==
  LET txn == ToDatetimeCoerce(m.txn_date)
      start == ToDatetimeCoerce(m.eff_start_dt)
      end == FillNaT(ToDatetimeCoerce(m.eff_end_dt), TimestampMax)
  IN /\ txn # NaT
     /\ start # NaT
     /\ txn >= start
     /\ txn <= end

\* fact_data joined to map_pol on policy_id (how='left')
MergePolicy(facts, map_pol) ==
  Concat([i \in 1..Len(facts) |->
    LET hits == SelectSeq(map_pol,
                  LAMBDA q : q.policy_id = facts[i].policy_id)
        f == facts[i]
    IN IF hits = <<>>
       THEN <<[row |-> f.row, customer_id |-> f.customer_id,
               txn_date |-> f.txn_date, postal_code |-> f.postal_code,
               late_duration_months |-> f.late_duration_months,
               customer_sk |-> f.customer_sk, policy_sk |-> NaN]>>
       ELSE [j \in 1..Len(hits) |->
              [row |-> f.row, customer_id |-> f.customer_id,
               txn_date |-> f.txn_date, postal_code |-> f.postal_code,
               late_duration_months |-> f.late_duration_months,
               customer_sk |-> f.customer_sk,
               policy_sk |-> IntCell(hits[j].policy_sk)]]])

\* fact_data joined to map_addr on customer_id and postal_code (how='left')
MergeAddr(facts, map_addr) ==
  Concat([i \in 1..Len(facts) |->
    LET f == facts[i]
        hits == SelectSeq(map_addr,
                  LAMBDA q : /\ q.customer_id = f.customer_id
                             /\ q.postal_code = f.postal_code)
    IN IF hits = <<>>
       THEN <<[row |-> f.row, customer_id |-> f.customer_id,
               txn_date |-> f.txn_date,
               late_duration_months |-> f.late_duration_months,
               customer_sk |-> f.customer_sk, policy_sk |-> f.policy_sk,
               address_sk |-> NaN]>>
       ELSE [j \in 1..Len(hits) |->
              [row |-> f.row, customer_id |-> f.customer_id,
               txn_date |-> f.txn_date,
               late_duration_months |-> f.late_duration_months,
               customer_sk |-> f.customer_sk, policy_sk |-> f.policy_sk,
               address_sk |-> IntCell(hits[j].address_sk)]]])

\* fact_data joined to map_fee, late_duration_months on duration_months
\* (how='left'), with column date_sk
MergeFee(facts, map_fee) ==
  Concat([i \in 1..Len(facts) |->
    LET f == facts[i]
        hits == SelectSeq(map_fee,
                  LAMBDA q : q.duration_months = f.late_duration_months)
        date_sk == DateSk(ToDatetimeCoerce(f.txn_date))
    IN IF hits = <<>>
       THEN <<[row |-> f.row, customer_id |-> f.customer_id,
               txn_date |-> f.txn_date, date_sk |-> date_sk,
               late_duration_months |-> f.late_duration_months,
               customer_sk |-> f.customer_sk, policy_sk |-> f.policy_sk,
               address_sk |-> f.address_sk, late_fee_sk |-> NaN]>>
       ELSE [j \in 1..Len(hits) |->
              [row |-> f.row, customer_id |-> f.customer_id,
               txn_date |-> f.txn_date, date_sk |-> date_sk,
               late_duration_months |-> f.late_duration_months,
               customer_sk |-> f.customer_sk, policy_sk |-> f.policy_sk,
               address_sk |-> f.address_sk,
               late_fee_sk |-> IntCell(hits[j].late_fee_sk)]]])

\* fact_data = df_merged[mask]: the merged rows whose date lies in their version
MaskedFacts(df, dates, months, map_cust) ==
  SelectSeq(MergeCust(df, dates, months, map_cust), Mask)

\* the number of rows the linkage warning reports as dropped, 0 when it logs none
DroppedRows(df, masked) ==
  IF Len(masked) < Len(df) THEN Len(df) - Len(masked) ELSE 0

\* the rows loaded into fact_policy_txn
LinkedFacts(df, dates, months, map_cust, map_pol, map_addr, map_fee) ==
  MergeFee(
    MergeAddr(
      MergePolicy(MaskedFacts(df, dates, months, map_cust), map_pol),
      map_addr),
    map_fee)

(***************************************************************************)
(* State                                                                   *)
(***************************************************************************)
VARIABLES
  dim_customer,    \* table dim_customer, rows in insertion order
  dim_policy,      \* table dim_policy
  dim_address,     \* table dim_address
  late_fee_loads,  \* how many times table dim_late_fee holds the reference rows
  now,             \* the calendar day of the system clock
  runs,            \* invocations of run_pipeline started so far
  pc,              \* position of the running invocation
  df,              \* the ingested flat file, but for column txn_date
  txn_date,        \* column txn_date of df, drawn when the linkage reads it
  today,           \* datetime.now().date() of the running invocation
  existing_cust,   \* the current dimension rows the invocation fetched
  new_rows,        \* incoming rows whose key is not in the current dimension
  changed_rows,    \* matched rows whose hash differs
  unchanged_rows,  \* matched rows whose hash is the same
  to_insert,       \* versions to insert
  to_update,       \* expirations to apply
  upd_i,           \* position of to_update.iterrows()
  fact_data,       \* the linked facts of the running invocation
  last_cust,       \* dim_cust_new of the previous completed invocation
  dim_before,      \* dim_customer as it was when the running invocation started
  failed,          \* the calls of the running invocation that raised
  lacking,         \* the rows of df read from a file without column marital_status
  dropped          \* the dropped rows the linkage of the invocation reported

vars == <<dim_customer, dim_policy, dim_address, late_fee_loads, now, runs, pc,
          df, txn_date, today, existing_cust, new_rows,
          changed_rows, unchanged_rows, to_insert, to_update, upd_i,
          fact_data, last_cust, dim_before, failed, lacking, dropped>>

Init ==
  /\ dim_customer = <<>>
  /\ dim_policy = <<>>
  /\ dim_address = <<>>
  /\ late_fee_loads = 0
  /\ now = 1
  /\ runs = 0
  /\ pc = "idle"
  /\ df = <<>>
  /\ txn_date = <<>>
  /\ today = NaT
  /\ existing_cust = <<>>
  /\ new_rows = <<>>
  /\ changed_rows = <<>>
  /\ unchanged_rows = <<>>
  /\ to_insert = <<>>
  /\ to_update = <<>>
  /\ upd_i = 1
  /\ fact_data = <<>>
  /\ last_cust = <<>>
  /\ dim_before = <<>>
  /\ failed = {}
  /\ lacking = {}
  /\ dropped = 0

\* Loader.load_to_db(..., if_exists='append') on dim_policy: policy_sk is assigned
\* by the table
LoadDimPolicy(table, rows) ==
  table \o [i \in 1..Len(rows) |->
             [policy_sk |-> Len(table) + i, policy_id |-> rows[i].policy_id]]

\* Loader.load_to_db(dim_addr, 'dim_address', if_exists='append'): address_sk is
\* assigned by the table
LoadDimAddress(table, rows) ==
  table \o [i \in 1..Len(rows) |->
             [address_sk |-> Len(table) + i,
              customer_id |-> rows[i].customer_id,
              postal_code |-> rows[i].postal_code]]

\* SELECT late_fee_sk, duration_months FROM dim_late_fee, the reference rows having
\* been appended n times
DimLateFee(n) ==
  [j \in 1..(n * Len(LateFeeRows)) |->
    [late_fee_sk |-> j,
     duration_months |->
       LateFeeRows[((j - 1) % Len(LateFeeRows)) + 1].duration_months]]

\* Loader.load_to_db(to_insert[cols_to_load], 'dim_customer', 'append'):
\* customer_sk is assigned by the table, the cells are stored as SQL values
LoadDimCustomer(table, rows) ==
  table \o [i \in 1..Len(rows) |->
             [customer_sk |-> Len(table) + i,
              customer_id |-> rows[i].customer_id,
              customer_name |-> ToSql(rows[i].customer_name),
              customer_segment |-> ToSql(rows[i].customer_segment),
              marital_status |-> ToSql(rows[i].marital_status),
              region |-> ToSql(rows[i].region),
              eff_start_dt |-> rows[i].eff_start_dt,
              eff_end_dt |-> rows[i].eff_end_dt,
              current_flag |-> rows[i].current_flag]]

\* ExpireVersion without the WHERE on customer_sk: every current row is closed
ExpireVersion_AllCurrent(table, u) ==
  [i \in 1..Len(table) |->
    IF table[i].current_flag = 1
    THEN [table[i] EXCEPT !.current_flag = 0, !.eff_end_dt = u.eff_end_dt]
    ELSE table[i]]

\* UPDATE dim_customer SET current_flag = 0, eff_end_dt = :end_dt
\* WHERE customer_sk = :sk
ExpireVersion(table, u) ==
  [i \in 1..Len(table) |->
    IF table[i].customer_sk = u.customer_sk
    THEN [table[i] EXCEPT !.current_flag = 0, !.eff_end_dt = u.eff_end_dt]
    ELSE table[i]]

\* where run_pipeline continues after the plan is made or the expirations are done
AfterExpire(ins) == IF ins # <<>> THEN "insert" ELSE "link"

\* run_pipeline up to the plan: ingest, load dim_policy, classify against the
\* fetched current rows existing and plan (steps 1 to 7.3.3). raised is the set of
\* store calls that raised on the way.
StartRunWith(batch, t, existing, raised) ==
  /\ pc = "idle"
  /\ runs < MaxRuns
  /\ LET dim_cust_new == DimCustNew(batch)
         merged == MergeLeft(dim_cust_new, existing)
         first_load == existing = <<>>
         ins == IF first_load THEN FirstLoadInserts(dim_cust_new)
                ELSE AllInserts(merged, t)
         upd == IF first_load THEN <<>>
                ELSE Updates(ChangedRows(merged), t)
     IN /\ df' = batch
        /\ today' = t
        /\ now' = t
        /\ existing_cust' = existing
        /\ dim_policy' = LoadDimPolicy(dim_policy, DimPolicyNew(batch))
        /\ new_rows' = IF first_load THEN dim_cust_new ELSE NewRows(merged)
        /\ changed_rows' = IF first_load THEN <<>> ELSE ChangedRows(merged)
        /\ unchanged_rows' = IF first_load THEN <<>> ELSE UnchangedRows(merged)
        /\ to_insert' = ins
        /\ to_update' = upd
        /\ upd_i' = 1
        /\ pc' = IF upd # <<>> THEN "expire" ELSE AfterExpire(ins)
  /\ runs' = runs + 1
  /\ dim_before' = dim_customer
  /\ failed' = raised
  /\ UNCHANGED <<dropped, dim_customer, dim_address, late_fee_loads, txn_date, fact_data,
                 last_cust>>

\* the start of an invocation whose read of the current dimension rows succeeds
StartRunOn(batch, t) ==
  /\ StartRunWith(batch, t, FetchExisting(dim_customer), {})
  /\ lacking' = {}

\* an invocation on any flat file of the tracked-attribute domain, on any day from
\* the clock's day on
StartRun == \E batch \in Batches, t \in now..MaxDay : StartRunOn(batch, t)

\* an invocation on a flat file whose marital_status column is typed by inference
StartRunTyped ==
  \E batch \in TypedBatches, t \in now..MaxDay : StartRunOn(batch, t)

\* one iteration of the expiry loop: one UPDATE and its commit
ExpireOne ==
  /\ pc = "expire"
  /\ upd_i <= Len(to_update)
  /\ dim_customer' = ExpireVersion(dim_customer, to_update[upd_i])
  /\ upd_i' = upd_i + 1
  /\ pc' = IF upd_i = Len(to_update) THEN AfterExpire(to_insert) ELSE "expire"
  /\ UNCHANGED <<dropped, lacking, dim_policy, dim_address, late_fee_loads, now, runs, df,
                 txn_date, today, existing_cust,
                 new_rows, changed_rows, unchanged_rows, to_insert, to_update,
                 fact_data, last_cust, dim_before, failed>>

\* the insert of the new versions (step 7.3.5)
InsertVersions ==
  /\ pc = "insert"
  /\ dim_customer' = LoadDimCustomer(dim_customer, to_insert)
  /\ pc' = "link"
  /\ UNCHANGED <<dropped, lacking, dim_policy, dim_address, late_fee_loads, now, runs, df,
                 txn_date, today, existing_cust,
                 new_rows, changed_rows, unchanged_rows, to_insert, to_update,
                 upd_i, fact_data, last_cust, dim_before, failed>>

\* the loads of dim_address and dim_late_fee (steps 7.4 and 7.5). The reference rows
\* of dim_late_fee are appended to an empty table; appended again, they are stored
\* or refused by the table, and the refusal is caught.
LoadAuxDims ==
  /\ dim_address' = LoadDimAddress(dim_address, DimAddrNew(df))
  /\ \E stored \in BOOLEAN :
       /\ late_fee_loads = 0 => stored
       /\ late_fee_loads' = IF stored THEN late_fee_loads + 1 ELSE late_fee_loads

\* the values late_duration_months takes for a premium paid on day paid, over
\* every next_premium_dt
LateMonthsOf(paid) == { LateDurationMonths(paid, due) : due \in TxnDates }

\* column late_duration_months of df for the paid dates dates
LateMonthsColumns(dates) ==
  { months \in [DOMAIN dates -> UNION { LateMonthsOf(d) : d \in TxnDates }] :
      \A i \in DOMAIN dates : months[i] \in LateMonthsOf(dates[i]) }

\* the loads of dim_address and dim_late_fee, the fact linkage and the load of
\* fact_policy_txn (steps 7.4 to 7.6). Nothing before this step reads column
\* txn_date, so its cells are drawn here.
LinkFacts ==
  /\ pc = "link"
  /\ LoadAuxDims
  /\ \E dates \in [1..Len(df) -> TxnDates] :
       \E months \in LateMonthsColumns(dates) :
         /\ txn_date' = dates
         /\ dropped' = DroppedRows(df, MaskedFacts(df, dates, months,
                                                   dim_customer))
         /\ fact_data' = LinkedFacts(df, dates, months, dim_customer, dim_policy,
                                     dim_address', DimLateFee(late_fee_loads'))
  /\ pc' = "done"
  /\ UNCHANGED <<lacking, dim_customer, dim_policy, now, runs, df, today,
                 existing_cust, new_rows, changed_rows, unchanged_rows,
                 to_insert, to_update, upd_i, last_cust, dim_before, failed>>

\* the invocation returns: its data frames are gone, the tables stay
Finish ==
  /\ pc = "done"
  /\ pc' = "idle"
  /\ last_cust' = DimCustNew(df)
  /\ df' = <<>>
  /\ txn_date' = <<>>
  /\ today' = NaT
  /\ existing_cust' = <<>>
  /\ new_rows' = <<>>
  /\ changed_rows' = <<>>
  /\ unchanged_rows' = <<>>
  /\ to_insert' = <<>>
  /\ to_update' = <<>>
  /\ upd_i' = 1
  /\ fact_data' = <<>>
  /\ dim_before' = <<>>
  /\ failed' = {}
  /\ lacking' = {}
  /\ dropped' = 0
  /\ UNCHANGED <<dim_customer, dim_policy, dim_address, late_fee_loads, now,
                 runs>>

Next ==
  \/ StartRun
  \/ ExpireOne
  \/ InsertVersions
  \/ LinkFacts
  \/ Finish

Spec == Init /\ [][Next]_vars

\* the pipeline over flat files with typed cells
NextTyped ==
  \/ StartRunTyped
  \/ ExpireOne
  \/ InsertVersions
  \/ LinkFacts
  \/ Finish

SpecTyped == Init /\ [][NextTyped]_vars

(***************************************************************************)
(* The pipeline with store calls that raise                                *)
(***************************************************************************)
\* flat files of customers whose marital_status is given and whose
\* effective_start_dt is not
FailBatches ==
  { b \in Batches :
      \A i \in 1..Len(b) :
        /\ b[i].customer_name = Str("a")
        /\ b[i].marital_status # NaN
        /\ b[i].effective_start_dt = NaT }

\* an invocation whose store calls succeed up to the plan
StartRunStore ==
  \E batch \in FailBatches, t \in now..MaxDay : StartRunOn(batch, t)

\* an invocation whose read of the current dimension rows raises: the exception is
\* caught and existing_cust is an empty frame
FetchFails ==
  \E batch \in FailBatches, t \in now..MaxDay :
    /\ StartRunWith(batch, t, <<>>, {"fetch"})
    /\ lacking' = {}

\* the UPDATE of one iteration of the expiry loop, or its commit, raises: the
\* exception leaves run_pipeline, the earlier commits stay
ExpireFails ==
  /\ pc = "expire"
  /\ upd_i <= Len(to_update)
  /\ pc' = "aborted"
  /\ failed' = failed \cup {"store"}
  /\ UNCHANGED <<dropped, lacking, dim_customer, dim_policy, dim_address, late_fee_loads, now,
                 runs, df, txn_date, today, existing_cust, new_rows,
                 changed_rows, unchanged_rows, to_insert, to_update, upd_i,
                 fact_data, last_cust, dim_before>>

\* the insert of the new versions raises: to_sql stores no row, load_to_db raises
\* again and the exception leaves run_pipeline
InsertFails ==
  /\ pc = "insert"
  /\ pc' = "aborted"
  /\ failed' = failed \cup {"store"}
  /\ UNCHANGED <<dropped, lacking, dim_customer, dim_policy, dim_address, late_fee_loads, now,
                 runs, df, txn_date, today, existing_cust, new_rows,
                 changed_rows, unchanged_rows, to_insert, to_update, upd_i,
                 fact_data, last_cust, dim_before>>

\* MapsFail that goes on with the maps it has read when the read of map_pol raises
MapsFail_KeepGoing ==
  /\ pc = "link"
  /\ LoadAuxDims
  /\ \E dates \in [1..Len(df) -> TxnDates] :
       \E months \in LateMonthsColumns(dates) :
         /\ txn_date' = dates
         /\ dropped' = DroppedRows(df, MaskedFacts(df, dates, months,
                                                   dim_customer))
         /\ fact_data' = LinkedFacts(df, dates, months, dim_customer, <<>>,
                                     dim_address', DimLateFee(late_fee_loads'))
  /\ pc' = "done"
  /\ failed' = failed \cup {"maps"}
  /\ UNCHANGED <<lacking, dim_customer, dim_policy, now, runs, df, today,
                 existing_cust, new_rows, changed_rows, unchanged_rows,
                 to_insert, to_update, upd_i, last_cust, dim_before>>

\* a read of the dimension maps raises, after dim_address and dim_late_fee are
\* loaded: the error is logged and run_pipeline returns without linking a fact
MapsFail ==
  /\ pc = "link"
  /\ LoadAuxDims
  /\ \E dates \in [1..Len(df) -> TxnDates] : txn_date' = dates
  /\ fact_data' = <<>>
  /\ dropped' = 0
  /\ pc' = "done"
  /\ failed' = failed \cup {"maps"}
  /\ UNCHANGED <<lacking, dim_customer, dim_policy, now, runs, df, today,
                 existing_cust, new_rows, changed_rows, unchanged_rows,
                 to_insert, to_update, upd_i, last_cust, dim_before>>

\* the process of an invocation that raised ends: its data frames are gone, the
\* tables stay
Exit ==
  /\ pc = "aborted"
  /\ pc' = "idle"
  /\ df' = <<>>
  /\ txn_date' = <<>>
  /\ today' = NaT
  /\ existing_cust' = <<>>
  /\ new_rows' = <<>>
  /\ changed_rows' = <<>>
  /\ unchanged_rows' = <<>>
  /\ to_insert' = <<>>
  /\ to_update' = <<>>
  /\ upd_i' = 1
  /\ fact_data' = <<>>
  /\ dim_before' = <<>>
  /\ failed' = {}
  /\ lacking' = {}
  /\ dropped' = 0
  /\ UNCHANGED <<dim_customer, dim_policy, dim_address, late_fee_loads, now,
                 runs, last_cust>>

NextStore ==
  \/ StartRunStore
  \/ FetchFails
  \/ ExpireOne
  \/ ExpireFails
  \/ InsertVersions
  \/ InsertFails
  \/ LinkFacts
  \/ MapsFail
  \/ Finish
  \/ Exit

SpecStore == Init /\ [][NextStore]_vars

(***************************************************************************)
(* The pipeline over flat files of which some lack column marital_status   *)
(***************************************************************************)
\* the columns run_pipeline selects from stg_cust for dim_cust_new
dim_cust_cols ==
  {"customer_id", "customer_name", "customer_segment", "marital_status", "gender",
   "region", "effective_start_dt"}

\* the customer columns of a flat file that has, or lacks, column marital_status
FileColumns(has_marital) ==
  IF has_marital THEN dim_cust_cols ELSE dim_cust_cols \ {"marital_status"}

\* the customer columns of pd.concat(df_list): those of any of the files. lack is
\* the set of rows read from a file without column marital_status.
DfColumns(batch, lack) ==
  UNION { FileColumns(i \notin lack) : i \in 1..Len(batch) }

\* the rows of pd.concat(df_list): a cell of a column its file lacks is NaN
ConcatFiles(batch, lack) ==
  [i \in 1..Len(batch) |->
    IF i \in lack THEN [batch[i] EXCEPT !.marital_status = NaN] ELSE batch[i]]

\* DataFrame[labels] raises KeyError when a label is not a column
RaisesKeyError(columns, labels) == ~(labels \subseteq columns)

\* a row of a df that has no column marital_status
WithoutMarital(r) ==
  [customer_id |-> r.customer_id,
   customer_name |-> r.customer_name,
   customer_segment |-> r.customer_segment,
   region |-> r.region,
   effective_start_dt |-> r.effective_start_dt,
   policy_id |-> r.policy_id,
   postal_code |-> r.postal_code]

\* an invocation on files of which at least one has column marital_status: the
\* selection of the columns of dim_cust_new succeeds
StartRunFiles ==
  \E batch \in FailBatches, t \in now..MaxDay :
    \E lack \in SUBSET (1..Len(batch)) :
      /\ ~RaisesKeyError(DfColumns(batch, lack), dim_cust_cols)
      /\ StartRunWith(ConcatFiles(batch, lack), t,
                      FetchExisting(dim_customer), {})
      /\ lacking' = lack

\* an invocation on files none of which has column marital_status: split_dataframe
\* leaves the column out of stg_cust with a warning, dim_policy is loaded, and the
\* selection of the columns of dim_cust_new raises KeyError, which leaves
\* run_pipeline before the current dimension rows are fetched
SchemaFails ==
  \E batch \in FailBatches, t \in now..MaxDay :
    \E lack \in SUBSET (1..Len(batch)) :
      /\ RaisesKeyError(DfColumns(batch, lack), dim_cust_cols)
      /\ pc = "idle"
      /\ runs < MaxRuns
      /\ df' = [i \in 1..Len(batch) |-> WithoutMarital(batch[i])]
      /\ today' = t
      /\ now' = t
      /\ dim_policy' = LoadDimPolicy(dim_policy, DimPolicyNew(batch))
      /\ existing_cust' = <<>>
      /\ new_rows' = <<>>
      /\ changed_rows' = <<>>
      /\ unchanged_rows' = <<>>
      /\ to_insert' = <<>>
      /\ to_update' = <<>>
      /\ upd_i' = 1
      /\ pc' = "aborted"
      /\ runs' = runs + 1
      /\ dim_before' = dim_customer
      /\ failed' = {"schema"}
      /\ lacking' = lack
      /\ UNCHANGED <<dropped, dim_customer, dim_address, late_fee_loads, txn_date,
                     fact_data, last_cust>>

NextSchema ==
  \/ StartRunFiles
  \/ SchemaFails
  \/ ExpireOne
  \/ InsertVersions
  \/ LinkFacts
  \/ Finish
  \/ Exit

SpecSchema == Init /\ [][NextSchema]_vars

(***************************************************************************)
(* The pure fact linkage on its own: any small dimension history, one run  *)
(* of the linkage                                                          *)
(***************************************************************************)
\* the validity windows a stored version may have
StoredVersions ==
  { [customer_id |-> c, eff_start_dt |-> b, eff_end_dt |-> e, current_flag |-> f] :
    c \in CustomerIds, b \in {Date1900} \cup Days,
    e \in Days \cup {MaxDay + 1, EndOfTime}, f \in {0, 1} }

\* dim_customer tables of up to two versions, keys assigned in order
Histories ==
  { [i \in 1..n |->
      [customer_sk |-> i,
       customer_id |-> h[i].customer_id,
       customer_name |-> Str("a"),
       customer_segment |-> Str("bc"),
       marital_status |-> Str("m"),
       region |-> Str("r"),
       eff_start_dt |-> h[i].eff_start_dt,
       eff_end_dt |-> h[i].eff_end_dt,
       current_flag |-> h[i].current_flag]] :
    n \in 1..2, h \in [1..2 -> StoredVersions] }

InitResolve ==
  /\ dim_customer \in Histories
  /\ dim_policy = LoadDimPolicy(<<>>, <<[policy_id |-> "p1"]>>)
  /\ df \in [1..MaxRows -> {r \in DfRows : r.customer_id = "c1"
                                            /\ r.effective_start_dt = NaT
                                            /\ r.customer_name = Str("a")
                                            /\ r.marital_status = Str("m")}]
  /\ now = 1
  /\ runs = 1
  /\ pc = "link"
  /\ txn_date = <<>>
  /\ today = 1
  /\ existing_cust = <<>>
  /\ new_rows = <<>>
  /\ changed_rows = <<>>
  /\ unchanged_rows = <<>>
  /\ to_insert = <<>>
  /\ to_update = <<>>
  /\ upd_i = 1
  /\ fact_data = <<>>
  /\ last_cust = <<>>
  /\ dim_address = <<>>
  /\ late_fee_loads = 0
  /\ dim_before = dim_customer
  /\ failed = {}
  /\ lacking = {}
  /\ dropped = 0

SpecResolve == InitResolve /\ [][LinkFacts]_vars

(***************************************************************************)
(* Vocabulary of the properties                                            *)
(***************************************************************************)
CustomerKeys(table) == { table[i].customer_id : i \in 1..Len(table) }
VersionsOf(table, k) == { i \in 1..Len(table) : table[i].customer_id = k }
CurrentOf(table, k) == { i \in VersionsOf(table, k) : table[i].current_flag = 1 }
CountKey(frame, k) == Len(SelectSeq(frame, LAMBDA r : r.customer_id = k))

\* the closed validity windows of the versions of k do not share a day
NoOverlap(table, k) ==
  \A i, j \in VersionsOf(table, k) :
    i # j => \/ table[i].eff_end_dt < table[j].eff_start_dt
             \/ table[j].eff_end_dt < table[i].eff_start_dt

\* every closed version of k is followed, the next day, by another version of k
NoGap(table, k) ==
  \A i \in VersionsOf(table, k) :
    table[i].eff_end_dt # EndOfTime =>
      \E j \in VersionsOf(table, k) :
        table[j].eff_start_dt = table[i].eff_end_dt + 1

\* day d lies in the closed validity window of version v; the open end is after
\* every day
Contains(v, d) ==
  /\ d # NaT
  /\ v.eff_start_dt <= d
  /\ (d <= v.eff_end_dt \/ v.eff_end_dt = EndOfTime)

\* the versions of the customer of fact i whose window contains its date
MatchingVersions(i) ==
  { j \in 1..Len(dim_customer) :
      /\ dim_customer[j].customer_id = df[i].customer_id
      /\ Contains(dim_customer[j], txn_date[i]) }

\* the rows of the linked facts that come from fact i
FactRows(i) == SelectSeq(fact_data, LAMBDA f : f.row = i)

\* the versions the running invocation inserted
InsertedNow ==
  { j \in 1..Len(dim_customer) : j > Len(dim_customer) - Len(to_insert) }

(***************************************************************************)
(* Properties                                                              *)
(***************************************************************************)
\* C1: between runs every customer key of the dimension has exactly one current
\* version, and the validity windows of its versions neither overlap nor leave a gap.
C1_SingleCurrentContiguous ==
  pc = "idle" =>
    \A k \in CustomerKeys(dim_customer) :
      /\ Cardinality(CurrentOf(dim_customer, k)) = 1
      /\ NoOverlap(dim_customer, k)
      /\ NoGap(dim_customer, k)

\* C2: with one incoming row per key and one current row per key of the snapshot,
\* every incoming key is in exactly one of new, changed and unchanged, the three
\* together are the incoming set, and new is the keys absent from the snapshot.
C2_ClassificationPartition ==
  pc # "idle" =>
    LET incoming == DimCustNew(df)
        keys == CustomerKeys(incoming)
    IN (/\ \A k \in keys : CountKey(incoming, k) = 1
        /\ \A k \in CustomerKeys(existing_cust) : CountKey(existing_cust, k) = 1)
       =>
       /\ \A k \in keys :
            /\ CountKey(new_rows, k) + CountKey(changed_rows, k)
                 + CountKey(unchanged_rows, k) = 1
            /\ CountKey(new_rows, k) = 1 <=> CountKey(existing_cust, k) = 0
       /\ CustomerKeys(new_rows) \cup CustomerKeys(changed_rows)
            \cup CustomerKeys(unchanged_rows) = keys

\* a run classified one key as new and the other as changed
C2_Witness ==
  /\ pc # "idle"
  /\ Len(new_rows) = 1
  /\ Len(changed_rows) = 1
  /\ Len(DimCustNew(df)) = 2

\* C3: once a run has expired a version and inserted its successor, the valid_to of
\* the expired version is the day before the valid_from of the successor.
C3_ExpiryIsDayBefore ==
  pc \in {"link", "done"} =>
    \A i \in 1..Len(to_update) :
      \A j \in 1..Len(dim_customer) :
        dim_customer[j].customer_sk = to_update[i].customer_sk =>
          \E n \in InsertedNow :
            /\ dim_customer[n].customer_id = dim_customer[j].customer_id
            /\ dim_customer[j].eff_end_dt = dim_customer[n].eff_start_dt - 1

\* C4: a fact whose date lies in exactly one version window of its customer is in
\* the linked facts exactly once, with the surrogate key of that version.
C4_UniqueMatchResolved ==
  pc = "done" =>
    \A i \in 1..Len(df) :
      \A j \in MatchingVersions(i) :
        MatchingVersions(i) = {j} =>
          /\ Len(FactRows(i)) = 1
          /\ FactRows(i)[1].customer_sk = IntCell(dim_customer[j].customer_sk)

\* C5: a fact that no version matches is still in the linked facts, with a null
\* customer version key.
C5_UnmatchedKept ==
  pc = "done" =>
    \A i \in 1..Len(df) :
      MatchingVersions(i) = {} =>
        /\ Len(FactRows(i)) >= 1
        /\ \A n \in 1..Len(FactRows(i)) : FactRows(i)[n].customer_sk = NaN

\* C6: in every state of the store, every customer key of the dimension has exactly
\* one current version.
C6_AlwaysOneCurrent ==
  \A k \in CustomerKeys(dim_customer) :
    Cardinality(CurrentOf(dim_customer, k)) = 1

\* C7: a run whose incoming customers are those of the previous run classifies
\* every row as unchanged and plans no insert and no expiration.
C7_RerunIsEmpty ==
  (pc # "idle" /\ runs >= 2 /\ DimCustNew(df) = last_cust) =>
    /\ new_rows = <<>>
    /\ changed_rows = <<>>
    /\ Len(unchanged_rows) = Len(last_cust)
    /\ to_insert = <<>>
    /\ to_update = <<>>

C10_ChangedPaired ==
  pc # "idle" =>
    /\ \A i \in 1..Len(changed_rows) :
         LET k == changed_rows[i].customer_id
             exp == { u \in 1..Len(to_update) :
                        \E e \in 1..Len(existing_cust) :
                          /\ existing_cust[e].customer_id = k
                          /\ existing_cust[e].customer_sk = to_update[u].customer_sk }
             ins == { n \in 1..Len(to_insert) :
                        /\ to_insert[n].customer_id = k
                        /\ to_insert[n].current_flag = 1 }
         IN Cardinality(exp) = 1 /\ Cardinality(ins) = 1
    /\ Len(to_update) = Len(changed_rows)
    /\ \A n \in 1..Len(to_insert) :
         CountKey(existing_cust, to_insert[n].customer_id) > 0 =>
           \E e \in 1..Len(existing_cust), u \in 1..Len(to_update) :
             /\ existing_cust[e].customer_id = to_insert[n].customer_id
             /\ existing_cust[e].customer_sk = to_update[u].customer_sk

\* a run planned the expiration and the insert of a changed key
C10_Witness ==
  /\ pc = "expire"
  /\ Len(changed_rows) = 2
  /\ Len(to_update) = 2
  /\ Len(to_insert) = 2

\* a cell without a value: NaN in a frame, NULL in the store
Missing(v) == v.t \in {"nan", "none"}

\* value equality of two cells: both missing, or the same type and the same value
FieldEq(a, b) ==
  \/ Missing(a) /\ Missing(b)
  \/ ~Missing(a) /\ ~Missing(b) /\ a = b

\* at least one tracked attribute of the matched row m differs from the current
\* version
AttrsDiffer(m) ==
  \/ ~FieldEq(m.customer_name, m.customer_name_old)
  \/ ~FieldEq(m.customer_segment, m.customer_segment_old)
  \/ ~FieldEq(m.marital_status, m.marital_status_old)
  \/ ~FieldEq(m.region, m.region_old)

\* C11: a matched incoming row is classified changed if and only if at least one
\* tracked attribute differs, field by field, from the current version; a row whose
\* attributes differ is never classified unchanged.
C11_ChangedIffDiffers ==
  pc # "idle" =>
    /\ \A i \in 1..Len(changed_rows) : AttrsDiffer(changed_rows[i])
    /\ \A i \in 1..Len(unchanged_rows) : ~AttrsDiffer(unchanged_rows[i])

\* C12: in the tracked-attribute comparison a missing value equals another value
\* only when both are missing, and values of different types are never equal: in a
\* row compared equal, every tracked cell is missing exactly when the current one
\* is, and has the type of the current one otherwise.
C12_NoCoercion ==
  pc # "idle" =>
    \A i \in 1..Len(unchanged_rows) :
      LET m == unchanged_rows[i]
          new == m.marital_status
          old == m.marital_status_old
      IN /\ Missing(new) <=> Missing(old)
         /\ ~Missing(new) => new.t = old.t

\* C13: a run whose batch holds a fact dated inside more than one version of its
\* customer fails: it never completes the fact load, and the fact is not emitted
\* once per matching version.
C13_OverlapFails ==
  pc = "done" =>
    \A i \in 1..Len(df) : Cardinality(MatchingVersions(i)) <= 1

\* C14: no version of the dimension ever has a valid_to before its own valid_from;
\* a run that would write one fails instead.
C14_NoInvertedInterval ==
  \A j \in 1..Len(dim_customer) :
    dim_customer[j].eff_end_dt >= dim_customer[j].eff_start_dt

\* C15: when a store call of the dimension write raises in the middle of a run,
\* the dimension is exactly as it was when the run started.
C15_AbortLeavesDimension ==
  pc = "aborted" => dim_customer = dim_before

\* C16: a run whose read of the current dimension rows raised writes nothing to
\* the dimension: no insert and no expiration.
C16_FetchFailureWritesNothing ==
  "fetch" \in failed => dim_customer = dim_before

\* C17: a run whose read of the dimension maps raised links and loads no fact;
\* in a run whose maps were read, every fact dated inside a version of its customer
\* is linked, whatever the other rows of the batch are (no match, no date).
C17_MapsFailureEmitsNothing ==
  pc = "done" =>
    /\ "maps" \in failed => fact_data = <<>>
    /\ "maps" \notin failed =>
         \A i \in 1..Len(df) :
           MatchingVersions(i) # {} => FactRows(i) # <<>>

\* the read of the maps raised in a run one of whose facts lies inside a version
\* of its customer, and no fact is linked
C17_Witness ==
  /\ pc = "done"
  /\ "maps" \in failed
  /\ \E i \in 1..Len(df) : MatchingVersions(i) # {}
  /\ fact_data = <<>>

\* the key of the first row of a dimension table that matches, or a missing key
FirstKey(hits, sk) == IF hits = <<>> THEN NaN ELSE IntCell(hits[1][sk])

\* C18: the policy, the address and the late fee of a fact are resolved by an
\* equality join in which the first match wins: for every customer version a fact
\* is linked to, the linked facts hold exactly one row, which carries the key of
\* the first dimension row with the fact's policy_id, of the first with its
\* customer_id and postal_code and of the first with its delay in months, or a
\* missing key where the table has no such row.
C18_FirstMatchWins ==
  pc = "done" =>
    \A n \in 1..Len(fact_data) :
      LET f == fact_data[n]
          r == df[f.row]
          same == { k \in 1..Len(fact_data) :
                      /\ fact_data[k].row = f.row
                      /\ fact_data[k].customer_sk = f.customer_sk }
      IN /\ Cardinality(same) = 1
         /\ f.policy_sk =
              FirstKey(SelectSeq(dim_policy,
                         LAMBDA q : q.policy_id = r.policy_id), "policy_sk")
         /\ f.address_sk =
              FirstKey(SelectSeq(dim_address,
                         LAMBDA q : /\ q.customer_id = r.customer_id
                                    /\ q.postal_code = r.postal_code),
                       "address_sk")
         /\ f.late_fee_sk =
              FirstKey(SelectSeq(DimLateFee(late_fee_loads),
                         LAMBDA q : q.duration_months = f.late_duration_months),
                       "late_fee_sk")

\* the YYYYMMDD number of a day
Ymd(d) ==
  LET c == DateOf(d) IN c.year * 10000 + c.month * 100 + c.day

\* C19: every linked fact carries as date key the YYYYMMDD number of its txn_date,
\* and a fact without a date is among the linked facts, with date key 0.
C19_DateKey ==
  pc = "done" =>
    /\ \A n \in 1..Len(fact_data) :
         fact_data[n].date_sk =
           IF txn_date[fact_data[n].row] = NaT THEN 0
           ELSE Ymd(txn_date[fact_data[n].row])
    /\ \A i \in 1..Len(df) :
         txn_date[i] = NaT =>
           /\ FactRows(i) # <<>>
           /\ \A n \in 1..Len(FactRows(i)) : FactRows(i)[n].date_sk = 0

\* C20: the facts of a run are linked against the dimension as the run's
\* expirations and inserts left it, and a fact dated on the run date whose customer
\* the run classified as changed is linked to the version the run inserted.
C20_ResolverReadsWrittenDimension ==
  pc = "done" =>
    /\ \A n \in 1..Len(fact_data) :
         \E j \in MatchingVersions(fact_data[n].row) :
           fact_data[n].customer_sk = IntCell(dim_customer[j].customer_sk)
    /\ \A i \in 1..Len(df) :
         (/\ txn_date[i] = today
          /\ \E c \in 1..Len(changed_rows) :
               changed_rows[c].customer_id = df[i].customer_id)
         =>
         /\ FactRows(i) # <<>>
         /\ \A n \in 1..Len(FactRows(i)) :
              \E j \in InsertedNow :
                /\ dim_customer[j].customer_id = df[i].customer_id
                /\ FactRows(i)[n].customer_sk = IntCell(dim_customer[j].customer_sk)

\* C21: no step removes a row of the dimension, and no step changes the surrogate
\* key, the business key, a tracked attribute or the valid_from of a row; the only
\* step that changes a row is the expiry of the version it names, which sets the
\* row's current_flag to 0 and its valid_to, and leaves every other row as it was.
C21_RowsKeptExpiryFrame ==
  [][/\ Len(dim_customer') >= Len(dim_customer)
     /\ \A j \in 1..Len(dim_customer) :
          LET old == dim_customer[j]
              new == dim_customer'[j]
          IN /\ new.customer_sk = old.customer_sk
             /\ new.customer_id = old.customer_id
             /\ new.customer_name = old.customer_name
             /\ new.customer_segment = old.customer_segment
             /\ new.marital_status = old.marital_status
             /\ new.region = old.region
             /\ new.eff_start_dt = old.eff_start_dt
             /\ new # old =>
                  /\ pc = "expire"
                  /\ old.customer_sk = to_update[upd_i].customer_sk
                  /\ new.current_flag = 0
                  /\ new.eff_end_dt = to_update[upd_i].eff_end_dt]_vars

\* a run has expired the version of a changed key, and the version of a key it
\* classified as unchanged is as it was when the run started
C21_Witness ==
  /\ pc \in {"expire", "insert", "link"}
  /\ upd_i > 1
  /\ unchanged_rows # <<>>
  /\ \E j, k \in 1..Len(dim_before) :
       /\ dim_before[j].current_flag = 1
       /\ dim_customer[j].current_flag = 0
       /\ dim_customer[j].customer_id = changed_rows[1].customer_id
       /\ dim_customer[k].customer_id = unchanged_rows[1].customer_id
       /\ dim_customer[k] = dim_before[k]

\* C22: a run plans no insert and no expiration for an incoming customer row whose
\* file has no column marital_status, whether or not another file of the run has
\* the column.
C22_SchemaErrorNoPlan ==
  pc # "idle" =>
    \A i \in lacking :
      (\A j \in 1..(i - 1) : df[j].customer_id # df[i].customer_id) =>
        /\ CountKey(to_insert, df[i].customer_id) = 0
        /\ CountKey(changed_rows, df[i].customer_id) = 0

\* the facts of df that no version of their customer matches
Unmatched == { i \in 1..Len(df) : MatchingVersions(i) = {} }

\* C23: the number of dropped rows a run that linked its facts reports is the
\* number of facts of its batch that no version of their customer matches,
\* whatever the history of the dimension is.
C23_DroppedIsUnmatched ==
  (pc = "done" /\ "maps" \notin failed) => dropped = Cardinality(Unmatched)

\* the version the running invocation inserted for customer k
InsertedFor(k) == { j \in InsertedNow : dim_customer[j].customer_id = k }

\* C24: in a run that fetched no current dimension row, once the insert is done,
\* no expiration is planned and no stored row has changed; every incoming customer
\* has exactly one inserted version, current, open-ended, and starting on the
\* effective_start_dt of the customer's first row, or on 1900-01-01 when that is
\* missing; and, the maps being read, every fact dated on or after that start is
\* linked to that version, a fact dated before the run date included.
C24_FirstLoad ==
  (pc \in {"link", "done"} /\ existing_cust = <<>>) =>
    LET incoming == DimCustNew(df)
    IN /\ to_update = <<>>
       /\ SubSeq(dim_customer, 1, Len(dim_before)) = dim_before
       /\ Len(dim_customer) = Len(dim_before) + Len(incoming)
       /\ \A i \in 1..Len(incoming) :
            /\ Cardinality(InsertedFor(incoming[i].customer_id)) = 1
            /\ \A j \in InsertedFor(incoming[i].customer_id) :
                 /\ dim_customer[j].current_flag = 1
                 /\ dim_customer[j].eff_end_dt = EndOfTime
                 /\ dim_customer[j].eff_start_dt =
                      IF incoming[i].effective_start_dt = NaT THEN Date1900
                      ELSE incoming[i].effective_start_dt
       /\ (pc = "done" /\ "maps" \notin failed) =>
            \A i \in 1..Len(df) :
              \A j \in InsertedFor(df[i].customer_id) :
                Contains(dim_customer[j], txn_date[i]) =>
                  \E n \in 1..Len(FactRows(i)) :
                    FactRows(i)[n].customer_sk =
                      IntCell(dim_customer[j].customer_sk)

\* a first load on day 2 gave one customer a version from 1900-01-01 and another a
\* version from its own effective_start_dt, and a fact of day 1 is linked to the
\* first
C24_Witness ==
  /\ pc = "done"
  /\ existing_cust = <<>>
  /\ today = 2
  /\ Len(dim_customer) = 2
  /\ dim_customer[1].eff_start_dt = Date1900
  /\ dim_customer[2].eff_start_dt = MaxDay
  /\ txn_date[1] = 1
  /\ df[1].customer_id = dim_customer[1].customer_id
  /\ FactRows(1) # <<>>
  /\ FactRows(1)[1].customer_sk = IntCell(dim_customer[1].customer_sk)

====
